---- MODULE Spec2Model ----
(***************************************************************************)
(* FDA nozzle V&V scripts: the experimental-file parser, the OpenFOAM      *)
(* sample reader, the error-metric engine, the jet-width derivation, main  *)
(* of the pressure and of the two velocity analyses, and main of the       *)
(* orchestrator run_all_vv.py.                                             *)
(*                                                                         *)
(* Text is a sequence of one-character strings.  A number is an exact      *)
(* rational <<n, d>> in lowest terms with d > 0.  The arithmetic of the    *)
(* code is read in two ways, chosen by arith: "real", where every          *)
(* operation is exact, and "float", where every operation rounds its exact *)
(* result to the nearest binary floating-point number of MantissaBits      *)
(* significant bits, ties to even, as IEEE 754 does with 53 bits.  A       *)
(* square root is held by its square, [sq |-> q].  None and nan are        *)
(* one-element tuples, so that they compare with text, with arrays and     *)
(* with numbers.                                                           *)
(***************************************************************************)
EXTENDS Integers, Sequences, FiniteSets, TLC

VARIABLES
    \* parse_experimental_file
    file,             \* the lines read so far, in file order
    data,             \* the dict: a sequence of [key, rows], insertion-ordered
    current_section,  \* the open section's label, or None
    current_data,     \* rows accumulated for the open section
    ppc,              \* "idle", "reading", "done", "raised"
    \* read_openfoam_sample
    entries,          \* sample_dir: entry name -> "dir", "dir+file" or "file"
    time,             \* the time selector
    time_dir,         \* the selected time directory, or None
    text,             \* the lines of the table file handed to loadtxt, or None
    sample,           \* what the call returned or raised, or None
    rpc,              \* "idle", "start", "resolved", "found", "done"
    \* calculate_error_metrics
    exp_r, exp_u, sim_r, sim_u,
    metrics,          \* what the call returned, or "pending"
    arith,            \* "real" or "float": how the arithmetic is read
    \* calculate_jet_width
    r, u_axial,
    width,            \* what the call returned, or "pending"
    \* main of an analysis script
    script,           \* the script whose main runs, or None
    postprocess_dir,  \* simulation_data exists
    exp_file,         \* the experimental file exists
    exp_data,         \* what parse_experimental_file returns for it, or None
    sim_centerline,   \* what read_openfoam_sample gives for 'centerline'
    sim_wall,         \* what read_openfoam_sample gives for 'wall_pressure'
    p_offset,         \* the local p_offset, or None while unbound
    scored,           \* the calls made to calculate_error_metrics, in order
    loc,              \* the index of the next sampling location
    all_metrics,      \* the dict of metrics, insertion-ordered
    plots_dir,        \* plots exists
    image,            \* the image file was saved
    printed,          \* the diagnostics printed, in order
    apc,              \* "idle", "start", "checked", ..., "done", "raised"
    \* main of run_all_vv.py
    source_dir,       \* simulation/postProcessing/sampleDict: exists, items
    dest_dir,         \* simulation_data: exists, items
    scripts_dir,      \* the scripts present in scripts/
    synced,           \* what sync_simulation_data returned, or "pending"
    attempted,        \* the calls of run_script and their outcomes, in order
    launched,         \* the scripts started as a subprocess, in order
    results,          \* the dict description -> status, insertion-ordered
    exit_status,      \* the exit status of the process: "none", "0", "1"
    opc               \* "idle", "start", "synced", "running", "summary", "exited"

parserVars == <<file, data, current_section, current_data, ppc>>
readerVars == <<entries, time, time_dir, text, sample, rpc>>
metricVars == <<exp_r, exp_u, sim_r, sim_u, metrics, arith>>
jetVars == <<r, u_axial, width>>
analysisVars == <<script, postprocess_dir, exp_file, exp_data, sim_centerline, sim_wall,
                  p_offset, scored, loc, all_metrics, plots_dir, image, printed, apc>>
orchVars == <<source_dir, dest_dir, scripts_dir, synced, attempted, launched, results,
              exit_status, opc>>
mainVars == <<analysisVars, orchVars>>
vars == <<parserVars, readerVars, metricVars, jetVars, mainVars>>

None == <<"None">>          \* in place of text
NoneArr == <<<<"None">>>>   \* in place of an array or of a list of lines
NaN == <<"nan">>            \* in place of a number
Pending == [kind |-> "pending"]

\* The state of a function that is not being run.
ParserIdle ==
    /\ file = <<>>
    /\ data = <<>>
    /\ current_section = None
    /\ current_data = <<>>
    /\ ppc = "idle"

ReaderIdle ==
    /\ entries = <<>>
    /\ time = None
    /\ time_dir = None
    /\ text = NoneArr
    /\ sample = Pending
    /\ rpc = "idle"

MetricsIdle ==
    /\ exp_r = NoneArr
    /\ exp_u = NoneArr
    /\ sim_r = NoneArr
    /\ sim_u = NoneArr
    /\ metrics = Pending
    /\ arith = "real"

JetIdle ==
    /\ r = NoneArr
    /\ u_axial = NoneArr
    /\ width = Pending

AnalysisIdle ==
    /\ script = None
    /\ postprocess_dir = FALSE
    /\ exp_file = FALSE
    /\ exp_data = NoneArr
    /\ sim_centerline = Pending
    /\ sim_wall = Pending
    /\ p_offset = None
    /\ scored = <<>>
    /\ loc = 0
    /\ all_metrics = <<>>
    /\ plots_dir = FALSE
    /\ image = FALSE
    /\ printed = <<>>
    /\ apc = "idle"

\* A directory that does not exist.
Absent == [exists |-> FALSE, items |-> <<>>]

OrchIdle ==
    /\ source_dir = Absent
    /\ dest_dir = Absent
    /\ scripts_dir = {}
    /\ synced = "pending"
    /\ attempted = <<>>
    /\ launched = <<>>
    /\ results = <<>>
    /\ exit_status = "none"
    /\ opc = "idle"

MainIdle == AnalysisIdle /\ OrchIdle

(***************************************************************************)
(* Exact rational arithmetic.                                              *)
(***************************************************************************)
Abs(x) == IF x < 0 THEN -x ELSE x

RECURSIVE GCD(_, _)
GCD(a, b) == IF b = 0 THEN a ELSE GCD(b, a % b)

Rat(n, d) ==
    LET g == GCD(Abs(n), Abs(d))
        s == IF d < 0 THEN -1 ELSE 1
    IN  <<(s * n) \div g, (s * d) \div g>>

R(n) == <<n, 1>>
\* Sums are taken over the least common denominator, which keeps the
\* intermediate products small.
RAdd(a, b) ==
    LET g == GCD(a[2], b[2])
    IN  Rat(a[1] * (b[2] \div g) + b[1] * (a[2] \div g), (a[2] \div g) * b[2])
RSub(a, b) == RAdd(a, <<-b[1], b[2]>>)
RMul(a, b) == Rat(a[1] * b[1], a[2] * b[2])
RDiv(a, b) == Rat(a[1] * b[2], a[2] * b[1])
RLt(a, b) == a[1] * b[2] < b[1] * a[2]
RLe(a, b) == a[1] * b[2] <= b[1] * a[2]
RAbs(a) == <<Abs(a[1]), a[2]>>

RECURSIVE Pow10(_)
Pow10(k) == IF k = 0 THEN 1 ELSE 10 * Pow10(k - 1)

RECURSIVE Pow2(_)
Pow2(k) == IF k = 0 THEN 1 ELSE 2 * Pow2(k - 1)

(***************************************************************************)
(* Binary floating point: a result is rounded to MantissaBits significant  *)
(* bits, to nearest, ties to even.  Exponent range is not limited.         *)
(***************************************************************************)
MantissaBits == 3

\* q > 0 scaled by a power of two into [2^(MantissaBits-1), 2^MantissaBits),
\* with the power: [m, up, down], q = m * 2^up / 2^down.
RECURSIVE Normalised(_, _, _)
Normalised(q, up, down) ==
    IF RLe(R(Pow2(MantissaBits)), q) THEN Normalised(RDiv(q, R(2)), up + 1, down)
    ELSE IF RLt(q, R(Pow2(MantissaBits - 1))) THEN Normalised(RMul(q, R(2)), up, down + 1)
    ELSE [m |-> q, up |-> up, down |-> down]

RoundPositive(q) ==
    LET s    == Normalised(q, 0, 0)
        fl   == s.m[1] \div s.m[2]
        frac == RSub(s.m, R(fl))
        half == Rat(1, 2)
        m    == IF RLt(half, frac) \/ (frac = half /\ fl % 2 = 1) THEN fl + 1 ELSE fl
    IN  Rat(m * Pow2(s.up), Pow2(s.down))

RoundToFloat(q) ==
    IF q[1] = 0 THEN q
    ELSE IF q[1] < 0 THEN RSub(R(0), RoundPositive(RAbs(q)))
    ELSE RoundPositive(q)

\* The result of one arithmetic operation of the code.
Rnd(q) == IF arith = "float" THEN RoundToFloat(q) ELSE q

FAdd(a, b) == Rnd(RAdd(a, b))
FSub(a, b) == Rnd(RSub(a, b))
FMul(a, b) == Rnd(RMul(a, b))
FDiv(a, b) == Rnd(RDiv(a, b))

(***************************************************************************)
(* Python str methods and float().                                         *)
(***************************************************************************)
Digits == {"0", "1", "2", "3", "4", "5", "6", "7", "8", "9"}
DigitVal(c) ==
    CASE c = "0" -> 0 [] c = "1" -> 1 [] c = "2" -> 2 [] c = "3" -> 3
      [] c = "4" -> 4 [] c = "5" -> 5 [] c = "6" -> 6 [] c = "7" -> 7
      [] c = "8" -> 8 [] c = "9" -> 9

IsSpace(c) == c \in {" ", "\t", "\n", "\r"}

\* str.isdigit(): non-empty and every character a digit.
IsDigitStr(s) == Len(s) > 0 /\ \A i \in 1..Len(s) : s[i] \in Digits

\* str.replace(old, ''), for a one-character old.
RECURSIVE RemoveChar(_, _)
RemoveChar(s, c) ==
    IF s = <<>> THEN <<>>
    ELSE IF Head(s) = c THEN RemoveChar(Tail(s), c)
    ELSE <<Head(s)>> \o RemoveChar(Tail(s), c)

\* line.replace('\t', '  ')
RECURSIVE ReplaceTabs(_)
ReplaceTabs(s) ==
    IF s = <<>> THEN <<>>
    ELSE IF Head(s) = "\t" THEN <<" ", " ">> \o ReplaceTabs(Tail(s))
    ELSE <<Head(s)>> \o ReplaceTabs(Tail(s))

RECURSIVE LStrip(_)
LStrip(s) == IF s # <<>> /\ IsSpace(Head(s)) THEN LStrip(Tail(s)) ELSE s

RECURSIVE RStrip(_)
RStrip(s) ==
    IF s # <<>> /\ IsSpace(s[Len(s)]) THEN RStrip(SubSeq(s, 1, Len(s) - 1)) ELSE s

Strip(s) == RStrip(LStrip(s))

StartsWith(s, p) == Len(s) >= Len(p) /\ SubSeq(s, 1, Len(p)) = p

\* Length of the leading run of non-space characters.
RECURSIVE WordLen(_)
WordLen(s) == IF s = <<>> \/ IsSpace(Head(s)) THEN 0 ELSE 1 + WordLen(Tail(s))

\* str.split(): the maximal runs of non-space characters, in order.
RECURSIVE Split(_)
Split(s) ==
    LET t == LStrip(s)
        n == WordLen(t)
    IN  IF t = <<>> THEN <<>>
        ELSE <<SubSeq(t, 1, n)>> \o Split(SubSeq(t, n + 1, Len(t)))

RECURSIVE DigitsVal(_)
DigitsVal(s) ==
    IF s = <<>> THEN 0 ELSE 10 * DigitsVal(SubSeq(s, 1, Len(s) - 1)) + DigitVal(s[Len(s)])

AllDigits(s) == \A i \in 1..Len(s) : s[i] \in Digits

IndexOf(s, cs) ==
    IF \E i \in 1..Len(s) : s[i] \in cs
    THEN CHOOSE i \in 1..Len(s) : s[i] \in cs /\ \A j \in 1..(i - 1) : s[j] \notin cs
    ELSE 0

HasSign(s) == s # <<>> /\ Head(s) \in {"+", "-"}
Unsigned(s) == IF HasSign(s) THEN Tail(s) ELSE s
SignOf(s) == IF s # <<>> /\ Head(s) = "-" THEN -1 ELSE 1

\* float(s) for the decimal literals [sign] digits [. digits] [e [sign] digits];
\* anything else is a ValueError ([ok |-> FALSE]).  The words inf and nan, and
\* digit-group underscores, are outside the model's alphabet.
Float(s) ==
    LET body  == Unsigned(s)
        e     == IndexOf(body, {"e", "E"})
        mant  == IF e = 0 THEN body ELSE SubSeq(body, 1, e - 1)
        expo  == IF e = 0 THEN <<>> ELSE SubSeq(body, e + 1, Len(body))
        dot   == IndexOf(mant, {"."})
        ipart == IF dot = 0 THEN mant ELSE SubSeq(mant, 1, dot - 1)
        fpart == IF dot = 0 THEN <<>> ELSE SubSeq(mant, dot + 1, Len(mant))
        mok   == AllDigits(ipart) /\ AllDigits(fpart) /\ Len(ipart) + Len(fpart) > 0
        eok   == e = 0 \/ IsDigitStr(Unsigned(expo))
        ev    == IF e = 0 THEN 0 ELSE SignOf(expo) * DigitsVal(Unsigned(expo))
        m     == Rat(SignOf(s) * DigitsVal(ipart \o fpart), Pow10(Len(fpart)))
    IN  IF mok /\ eok
        THEN [ok |-> TRUE,
              val |-> IF ev >= 0 THEN RMul(m, R(Pow10(ev)))
                      ELSE RDiv(m, R(Pow10(-ev)))]
        ELSE [ok |-> FALSE]

(***************************************************************************)
(* dict: insertion-ordered, assignment to an existing key keeps its place. *)
(***************************************************************************)
Keys(d) == {d[i].key : i \in 1..Len(d)}
Get(d, k) == (CHOOSE i \in 1..Len(d) : d[i].key = k)
DictGet(d, k) == d[Get(d, k)].rows
DictSet(d, k, v) ==
    IF k \in Keys(d)
    THEN [d EXCEPT ![Get(d, k)] = [key |-> k, rows |-> v]]
    ELSE Append(d, [key |-> k, rows |-> v])

(***************************************************************************)
(* parse_experimental_file                                                 *)
(***************************************************************************)
PlotPrefix == <<"p", "l", "o", "t", "-">>

\* Lines 30-31 and 44-45: store the open section if it has rows.
FlushAlways(d, section, rows) ==
    IF section # None THEN DictSet(d, section, rows) ELSE d

Flush(d, section, rows) ==
    IF section # None /\ rows # <<>> THEN DictSet(d, section, rows) ELSE d

\* Lines 35-42 without the length guard and the try: a short line is an
\* IndexError, an unparsable token a ValueError.
RowOutcomeUnguarded(line) ==
    LET parts == Split(ReplaceTabs(line))
    IN  IF Len(parts) >= 2 /\ Float(parts[1]).ok /\ Float(parts[2]).ok
        THEN [kind |-> "row", row |-> <<Float(parts[1]).val, Float(parts[2]).val>>]
        ELSE [kind |-> "raise"]

\* Lines 35-42: the row of a data line, or nothing.
RowOutcome(line) ==
    LET parts == Split(ReplaceTabs(line))
    IN  IF Len(parts) >= 2
        THEN IF Float(parts[1]).ok /\ Float(parts[2]).ok
             THEN [kind |-> "row", row |-> <<Float(parts[1]).val, Float(parts[2]).val>>]
             ELSE [kind |-> "skip"]
        ELSE [kind |-> "skip"]

\* The lines a file is drawn from: blank lines, section headers (one of them
\* indented and tab-terminated), data rows and malformed rows.
Lines ==
    { <<>>,
      <<" ", "\t">>,
      <<"p", "l", "o", "t", "-", "a">>,
      <<" ", "p", "l", "o", "t", "-", "b", "\t">>,
      <<"1", " ", "2">>,
      <<"2", "\t", "1", "\n">>,
      <<"-", "1", ".", "5", " ", " ", "2", "e", "1", " ", "x">>,
      <<"7">>,
      <<"x", " ", "1">>,
      <<"1", "\t", "x">>,
      <<"1", ".", "2", ".", "3", " ", "4">> }

MaxLines == 4

\* Lines 19-21: the state before the first line is read.
InitParser ==
    /\ file = <<>>
    /\ data = <<>>
    /\ current_section = None
    /\ current_data = <<>>
    /\ ppc = "reading"
    /\ ReaderIdle /\ MetricsIdle /\ JetIdle /\ MainIdle

CanRead == ppc = "reading" /\ Len(file) < MaxLines

\* Lines 25-27: a blank line is passed over.
ReadBlank(line) ==
    /\ CanRead
    /\ Strip(line) = <<>>
    /\ file' = Append(file, line)
    /\ UNCHANGED <<data, current_section, current_data, ppc>>
    /\ UNCHANGED <<readerVars, metricVars, jetVars, mainVars>>

\* Lines 29-33: a header stores the open section and opens the next one.
ReadHeader(line) ==
    /\ CanRead
    /\ Strip(line) # <<>>
    /\ StartsWith(Strip(line), PlotPrefix)
    /\ file' = Append(file, line)
    /\ data' = Flush(data, current_section, current_data)
    /\ current_section' = Strip(line)
    /\ current_data' = <<>>
    /\ UNCHANGED ppc
    /\ UNCHANGED <<readerVars, metricVars, jetVars, mainVars>>

\* Lines 34-42: a line under an open section is tokenised and, if its first two
\* tokens are numbers, appended as a row.
ReadData(line) ==
    /\ CanRead
    /\ Strip(line) # <<>>
    /\ ~StartsWith(Strip(line), PlotPrefix)
    /\ current_section # None
    /\ file' = Append(file, line)
    /\ LET o == RowOutcome(Strip(line))
       IN  /\ current_data' = IF o.kind = "row" THEN Append(current_data, o.row)
                              ELSE current_data
           /\ ppc' = IF o.kind = "raise" THEN "raised" ELSE ppc
    /\ UNCHANGED <<data, current_section>>
    /\ UNCHANGED <<readerVars, metricVars, jetVars, mainVars>>

\* Line 34, condition false: a line before the first header is dropped.
ReadOutside(line) ==
    /\ CanRead
    /\ Strip(line) # <<>>
    /\ ~StartsWith(Strip(line), PlotPrefix)
    /\ current_section = None
    /\ file' = Append(file, line)
    /\ UNCHANGED <<data, current_section, current_data, ppc>>
    /\ UNCHANGED <<readerVars, metricVars, jetVars, mainVars>>

\* Lines 44-47: at end of file the open section is stored and data returned.
EndOfFile ==
    /\ ppc = "reading"
    /\ data' = Flush(data, current_section, current_data)
    /\ ppc' = "done"
    /\ UNCHANGED <<file, current_section, current_data>>
    /\ UNCHANGED <<readerVars, metricVars, jetVars, mainVars>>

NextParser ==
    \/ \E line \in Lines : ReadBlank(line)
    \/ \E line \in Lines : ReadHeader(line)
    \/ \E line \in Lines : ReadData(line)
    \/ \E line \in Lines : ReadOutside(line)
    \/ EndOfFile

SpecParser == InitParser /\ [][NextParser]_vars

(***************************************************************************)
(* What a file says, read off its lines without running the parser.        *)
(***************************************************************************)
IsBlankLine(line) == \A i \in 1..Len(line) : IsSpace(line[i])
IsHeaderLine(line) == ~IsBlankLine(line) /\ StartsWith(Strip(line), PlotPrefix)
Tokens(line) == Split(ReplaceTabs(Strip(line)))
IsRowLine(line) ==
    /\ ~IsBlankLine(line)
    /\ ~IsHeaderLine(line)
    /\ Len(Tokens(line)) >= 2
    /\ Float(Tokens(line)[1]).ok
    /\ Float(Tokens(line)[2]).ok
IsMalformedLine(line) ==
    ~IsBlankLine(line) /\ ~IsHeaderLine(line) /\ ~IsRowLine(line)
RowValue(line) == <<Float(Tokens(line)[1]).val, Float(Tokens(line)[2]).val>>

\* The index of the header that follows header i, or one past the last line.
SectionEnd(f, i) ==
    IF \E j \in (i + 1)..Len(f) : IsHeaderLine(f[j])
    THEN CHOOSE j \in (i + 1)..Len(f) :
            IsHeaderLine(f[j]) /\ \A k \in (i + 1)..(j - 1) : ~IsHeaderLine(f[k])
    ELSE Len(f) + 1

RowLinesOf(f, i) == {j \in (i + 1)..(SectionEnd(f, i) - 1) : IsRowLine(f[j])}

RECURSIVE Ascending(_)
Ascending(S) ==
    IF S = {} THEN <<>>
    ELSE LET m == CHOOSE x \in S : \A y \in S : x <= y
         IN  <<m>> \o Ascending(S \ {m})

\* The rows of the section headed by line i, in file order.
SectionRows(f, i) ==
    LET idx == Ascending(RowLinesOf(f, i))
    IN  [k \in 1..Len(idx) |-> RowValue(f[idx[k]])]

HeadersOf(f, key) == {i \in 1..Len(f) : IsHeaderLine(f[i]) /\ Strip(f[i]) = key}

\* C1: every section stored in the returned dataset has at least one row, its
\* rows are the rows of one section of the file with that label, in file order,
\* and the parse never raises; so a section without a parsable row is not stored.
C1_StoredSectionsNonEmptyInFileOrder ==
    /\ ppc # "raised"
    /\ ppc = "done" =>
        /\ \A i, j \in 1..Len(data) : data[i].key = data[j].key => i = j
        /\ \A i \in 1..Len(data) :
            /\ Len(data[i].rows) >= 1
            /\ \E h \in HeadersOf(file, data[i].key) :
                   data[i].rows = SectionRows(file, h)

\* C1 witness: a returned dataset holding a section of two rows, from a file that
\* also has a section without a parsable row, which is not stored.
C1_Witness ==
    /\ ppc = "done"
    /\ \E i \in 1..Len(data) : Len(data[i].rows) = 2
    /\ \E h \in 1..Len(file) :
        /\ IsHeaderLine(file[h])
        /\ RowLinesOf(file, h) = {}
        /\ Strip(file[h]) \notin Keys(data)

\* C2: reading a non-header line with fewer than two tokens, or whose first or
\* second token is not a number, changes nothing but the position in the file:
\* the dataset, the open section and its rows are as before, and no exception
\* ends the parse.
C2_MalformedLineLeavesParseUnchanged ==
    [][(file' # file /\ IsMalformedLine(file'[Len(file')]))
         => /\ data' = data
            /\ current_section' = current_section
            /\ current_data' = current_data
            /\ ppc' = ppc]_vars

\* C2 witness: a returned section holds the rows before and after a malformed
\* line of that section.
C2_Witness ==
    /\ ppc = "done"
    /\ \E h \in 1..Len(file) :
        /\ IsHeaderLine(file[h])
        /\ h + 3 <= Len(file)
        /\ IsRowLine(file[h + 1])
        /\ IsMalformedLine(file[h + 2])
        /\ IsRowLine(file[h + 3])
        /\ Strip(file[h]) \in Keys(data)
        /\ DictGet(data, Strip(file[h])) = <<RowValue(file[h + 1]), RowValue(file[h + 3])>>

\* C15 as claimed: in the returned dataset every line under a header whose first
\* two tokens are numbers is a row of the section stored under that header's
\* label, also when one label heads several sections of the file.
C15_NoParsedRowLost ==
    ppc = "done" =>
        \A h \in 1..Len(file) :
            IsHeaderLine(file[h]) =>
                \A j \in RowLinesOf(file, h) :
                    /\ Strip(file[h]) \in Keys(data)
                    /\ \E k \in 1..Len(DictGet(data, Strip(file[h]))) :
                           DictGet(data, Strip(file[h]))[k] = RowValue(file[j])

(***************************************************************************)
(* read_openfoam_sample                                                    *)
(***************************************************************************)
LatestTime == <<"l", "a", "t", "e", "s", "t", "T", "i", "m", "e">>

N0 == <<"0">>
N10 == <<"1", "0">>
N2p5 == <<"2", ".", "5">>
NGarbage == <<"l", "a", "t", "e", "s", "t", "_", "g", "a", "r", "b", "a", "g", "e">>
N1p2p3 == <<"1", ".", "2", ".", "3">>
NMinus1 == <<"-", "1">>
N1e5 == <<"1", "e", "5">>

\* The names an entry of sample_dir is drawn from.
Names == {N0, N10, N2p5, NGarbage, N1p2p3, NMinus1, N1e5}

\* "dir": a directory without the table file; "dir+file": a directory holding
\* <set_name>_p_U.xy; "file": a regular file of sample_dir.
Kinds == {"dir", "dir+file", "file"}

MaxEntries == 4

TimeSelectors == {LatestTime, N10}

\* The table files loadtxt is given: empty, comment only, two and three good
\* rows (one with a sixth column and a blank line), a single row, three columns,
\* one column, a non-numeric cell, a ragged row.
Tables ==
    { <<>>,
      << <<"#", " ", "x">> >>,
      << <<"0", " ", "1", " ", "2", " ", "3", " ", "4">>,
         <<"1", " ", "5", " ", "6", " ", "7", " ", "8">> >>,
      << <<"0", " ", "1", " ", "2", " ", "3", " ", "4", " ", "9">>,
         <<>>,
         <<"1", "\t", "5", " ", "6", " ", "7", " ", "8", " ", "9", " ", "#", "c">>,
         <<"2", " ", "5", " ", "6", " ", "7", " ", "8", " ", "9">> >>,
      << <<"0", " ", "1", " ", "2", " ", "3", " ", "4">> >>,
      << <<"0", " ", "1", " ", "2">>,
         <<"1", " ", "5", " ", "6">> >>,
      << <<"0">>, <<"1">> >>,
      << <<"0", " ", "1", " ", "2", " ", "3", " ", "4">>,
         <<"1", " ", "x", " ", "6", " ", "7", " ", "8">> >>,
      << <<"0", " ", "1", " ", "2", " ", "3", " ", "4">>,
         <<"1", " ", "5", " ", "6">> >> }

NotFound == [kind |-> "notfound"]     \* (None, None, None)
Raise(exc) == [kind |-> "raise", exc |-> exc]

\* Line 55: the directories of sample_dir.
TimeDirs(e) == {n \in DOMAIN e : e[n] # "file"}

\* Line 57, the key: float(name) if the name without its dots is all digits,
\* else 0.  float may raise.
TimeKey(name) ==
    IF IsDigitStr(RemoveChar(name, ".")) THEN Float(name) ELSE [ok |-> TRUE, val |-> R(0)]

\* max(order, key): the first element whose key no other exceeds.
RECURSIVE MaxFrom(_, _)
MaxFrom(best, rest) ==
    IF rest = <<>> THEN best
    ELSE IF RLt(TimeKey(best).val, TimeKey(Head(rest)).val)
         THEN MaxFrom(Head(rest), Tail(rest))
         ELSE MaxFrom(best, Tail(rest))

\* min in place of max.
RECURSIVE MinFrom(_, _)
MinFrom(best, rest) ==
    IF rest = <<>> THEN best
    ELSE IF RLt(TimeKey(Head(rest)).val, TimeKey(best).val)
         THEN MinFrom(Head(rest), Tail(rest))
         ELSE MinFrom(best, Tail(rest))

MinByKey(order) == MinFrom(Head(order), Tail(order))

MaxByKey(order) == MaxFrom(Head(order), Tail(order))

Orders(S) == {o \in [1..Cardinality(S) -> S] : \A i, j \in 1..Cardinality(S) : o[i] = o[j] => i = j}

\* np.loadtxt: comments and blank lines dropped, every cell a float, every row
\* as long as the first; then squeezed (ndmin = 0).
StripComment(line) ==
    LET h == IndexOf(line, {"#"}) IN IF h = 0 THEN line ELSE SubSeq(line, 1, h - 1)

RECURSIVE TableRows(_)
TableRows(t) ==
    IF t = <<>> THEN <<>>
    ELSE LET cells == Split(StripComment(Head(t)))
         IN  IF cells = <<>> THEN TableRows(Tail(t))
             ELSE <<cells>> \o TableRows(Tail(t))

LoadTxt(t) ==
    LET rows == TableRows(t)
        nr   == Len(rows)
        nc   == IF nr = 0 THEN 0 ELSE Len(rows[1])
    IN  IF \E i \in 1..nr : \E j \in 1..Len(rows[i]) : ~Float(rows[i][j]).ok
        THEN Raise("ValueError")
        ELSE IF \E i \in 1..nr : Len(rows[i]) # nc
        THEN Raise("ValueError")
        ELSE [kind |-> "array",
              ndim |-> IF nr = 0 THEN 1
                       ELSE (IF nr > 1 THEN 1 ELSE 0) + (IF nc > 1 THEN 1 ELSE 0),
              size |-> nr * nc,
              rows |-> [i \in 1..nr |-> [j \in 1..nc |-> Float(rows[i][j]).val]]]

Min(a, b) == IF a < b THEN a ELSE b

\* Lines 71-75 without the test for an empty table.
SliceUnchecked(a) ==
    IF a.kind = "raise" THEN a
    ELSE IF a.ndim < 2 THEN Raise("IndexError")
    ELSE [kind |-> "arrays",
          pos |-> [i \in 1..Len(a.rows) |-> a.rows[i][1]],
          p   |-> [i \in 1..Len(a.rows) |-> a.rows[i][2]],
          U   |-> [i \in 1..Len(a.rows) |->
                      SubSeq(a.rows[i], 3, Min(5, Len(a.rows[i])))]]

\* Lines 71-75: an empty table is not found; otherwise column 0, column 1 and
\* columns 2:5 of a two-dimensional array.
Slice(a) ==
    IF a.kind = "raise" THEN a
    ELSE IF a.size = 0 THEN NotFound
    ELSE IF a.ndim < 2 THEN Raise("IndexError")
    ELSE [kind |-> "arrays",
          pos |-> [i \in 1..Len(a.rows) |-> a.rows[i][1]],
          p   |-> [i \in 1..Len(a.rows) |-> a.rows[i][2]],
          U   |-> [i \in 1..Len(a.rows) |->
                      SubSeq(a.rows[i], 3, Min(5, Len(a.rows[i])))]]

FileSystems ==
    UNION {[D -> Kinds] : D \in {D \in SUBSET Names : Cardinality(D) <= MaxEntries}}

InitReader ==
    /\ entries \in FileSystems
    /\ time \in TimeSelectors
    /\ time_dir = None
    /\ text = NoneArr
    /\ sample = Pending
    /\ rpc = "start"
    /\ ParserIdle /\ MetricsIdle /\ JetIdle /\ MainIdle

\* Lines 54-59, no directory: not found.
NoTimeDirs ==
    /\ rpc = "start"
    /\ time = LatestTime
    /\ TimeDirs(entries) = {}
    /\ sample' = NotFound
    /\ rpc' = "done"
    /\ UNCHANGED <<entries, time, time_dir, text>>
    /\ UNCHANGED <<parserVars, metricVars, jetVars, mainVars>>

\* Lines 54-57: the latest time among the directories, listed in any order;
\* float raises on a name of digits and dots that is no number.
ResolveLatest ==
    /\ rpc = "start"
    /\ time = LatestTime
    /\ TimeDirs(entries) # {}
    /\ \E order \in Orders(TimeDirs(entries)) :
        IF \E n \in TimeDirs(entries) : ~TimeKey(n).ok
        THEN /\ sample' = Raise("ValueError")
             /\ rpc' = "done"
             /\ UNCHANGED time_dir
        ELSE /\ time_dir' = MaxByKey(order)
             /\ rpc' = "resolved"
             /\ UNCHANGED sample
    /\ UNCHANGED <<entries, time, text>>
    /\ UNCHANGED <<parserVars, metricVars, jetVars, mainVars>>

\* Lines 60-64: an explicit time; not found if nothing has that name.
ResolveExplicit ==
    /\ rpc = "start"
    /\ time # LatestTime
    /\ IF time \in DOMAIN entries
       THEN /\ time_dir' = time
            /\ rpc' = "resolved"
            /\ UNCHANGED sample
       ELSE /\ sample' = NotFound
            /\ rpc' = "done"
            /\ UNCHANGED time_dir
    /\ UNCHANGED <<entries, time, text>>
    /\ UNCHANGED <<parserVars, metricVars, jetVars, mainVars>>

\* Lines 66-68: not found unless the time directory holds the table file.
FindFile ==
    /\ rpc = "resolved"
    /\ IF entries[time_dir] = "dir+file"
       THEN /\ rpc' = "found"
            /\ UNCHANGED sample
       ELSE /\ sample' = NotFound
            /\ rpc' = "done"
    /\ UNCHANGED <<entries, time, time_dir, text>>
    /\ UNCHANGED <<parserVars, metricVars, jetVars, mainVars>>

\* Lines 70-75: the table is loaded and sliced into the triple.
LoadTable ==
    /\ rpc = "found"
    /\ \E t \in Tables :
        /\ text' = t
        /\ sample' = Slice(LoadTxt(t))
    /\ rpc' = "done"
    /\ UNCHANGED <<entries, time, time_dir>>
    /\ UNCHANGED <<parserVars, metricVars, jetVars, mainVars>>

NextReader ==
    \/ NoTimeDirs
    \/ ResolveLatest
    \/ ResolveExplicit
    \/ FindFile
    \/ LoadTable

SpecReader == InitReader /\ [][NextReader]_vars

(***************************************************************************)
(* What a sample tree says, read off its names without running the reader. *)
(***************************************************************************)
IsNumericName(n) == IsDigitStr(RemoveChar(n, "."))
NameValue(n) == IF IsNumericName(n) THEN Float(n).val ELSE R(0)
Resolved == time = LatestTime /\ time_dir # None

IsEmptyTable(t) == \A i \in 1..Len(t) : IsBlankLine(StripComment(t[i]))

\* C9: the call returns the not-found triple, and does not raise, when the
\* latest time is asked for and sample_dir has no directory, when the explicit
\* time names nothing, when the selected time directory lacks the table file,
\* and when the table file has no data row.
C9_NotFoundCases ==
    rpc = "done" =>
        /\ (time = LatestTime /\ TimeDirs(entries) = {}) => sample = NotFound
        /\ (time # LatestTime /\ time \notin DOMAIN entries) => sample = NotFound
        /\ (time_dir # None /\ entries[time_dir] # "dir+file") => sample = NotFound
        /\ (text # NoneArr /\ IsEmptyTable(text)) => sample = NotFound

\* C9 witness: a table file holding only a comment line was read under the
\* latest time, and the call returned not found.
C9_Witness ==
    /\ rpc = "done"
    /\ time = LatestTime
    /\ text # NoneArr /\ text # <<>> /\ IsEmptyTable(text)
    /\ sample = NotFound

\* C10 as claimed: whatever the table file holds, the call returns not found or
\* three sequences of one length whose velocity entries have three components,
\* and never raises.
C10_TripleOrNotFound ==
    (rpc = "done" /\ text # NoneArr) =>
        \/ sample = NotFound
        \/ /\ sample.kind = "arrays"
           /\ Len(sample.pos) = Len(sample.p)
           /\ Len(sample.pos) = Len(sample.U)
           /\ \A i \in 1..Len(sample.U) : Len(sample.U[i]) = 3

\* C16 as claimed: when sample_dir has at least one directory, latest-time
\* resolution does not raise and selects one of the directories, of maximum
\* value, a name that is no non-negative decimal ("1.2.3", "-1", "1e5",
\* "latest_garbage") counting as 0.
C16_LatestResolutionNeverRaises ==
    (time = LatestTime /\ TimeDirs(entries) # {} /\ rpc # "start") =>
        /\ time_dir \in TimeDirs(entries)
        /\ \A d \in TimeDirs(entries) :
               RLe(TimeKey(d).val, TimeKey(time_dir).val)

(***************************************************************************)
(* calculate_error_metrics                                                 *)
(***************************************************************************)
NoneResult == [kind |-> "None"]

\* np.sum, np.mean: the elements are added from the first to the last.
RECURSIVE FSumFrom(_, _)
FSumFrom(acc, a) == IF a = <<>> THEN acc ELSE FSumFrom(FAdd(acc, Head(a)), Tail(a))

NpSum(a) == FSumFrom(R(0), a)

RECURSIVE NpMax(_)
NpMax(a) ==
    IF Len(a) = 1 THEN a[1]
    ELSE LET m == NpMax(Tail(a)) IN IF RLt(Head(a), m) THEN m ELSE Head(a)

NpMean(a) == FDiv(NpSum(a), R(Len(a)))
Squares(a) == [i \in 1..Len(a) |-> FMul(a[i], a[i])]
AbsAll(a) == [i \in 1..Len(a) |-> RAbs(a[i])]

\* exp_u > 0 in place of exp_u != 0.
PositiveMask(u) == [i \in 1..Len(u) |-> RLt(R(0), u[i])]

\* Line 84: exp_u != 0.
NonZeroMask(u) == [i \in 1..Len(u) |-> u[i] # R(0)]

\* a[mask]
RECURSIVE Compress(_, _)
Compress(a, mask) ==
    IF a = <<>> THEN <<>>
    ELSE (IF Head(mask) THEN <<Head(a)>> ELSE <<>>) \o Compress(Tail(a), Tail(mask))

\* The segment np.interp's search finds for x, xp[1] <= x < xp[Len(xp)]: the j
\* with xp[j] <= x < xp[j + 1].
Segment(x, xp) ==
    CHOOSE j \in 1..(Len(xp) - 1) : RLe(xp[j], x) /\ RLt(x, xp[j + 1])

\* np.interp with the end segments continued beyond the sampled range.
InterpExtrapolated(x, xp, fp) ==
    LET n == Len(xp)
        j == IF RLt(x, xp[1]) THEN 1
             ELSE IF RLe(xp[n], x) THEN n - 1
             ELSE Segment(x, xp)
    IN  IF n = 1 THEN fp[1]
        ELSE FAdd(FMul(FDiv(FSub(fp[j + 1], fp[j]), FSub(xp[j + 1], xp[j])),
                       FSub(x, xp[j])),
                  fp[j])

\* np.interp at one point, xp increasing: fp[0] to the left of the samples,
\* fp[-1] to their right, the sample itself where x meets one, the chord between
\* two samples otherwise.
Interp(x, xp, fp) ==
    LET n == Len(xp)
    IN  IF RLt(xp[n], x) THEN fp[n]
        ELSE IF RLt(x, xp[1]) THEN fp[1]
        ELSE IF x = xp[n] THEN fp[n]
        ELSE LET j == Segment(x, xp)
             IN  IF xp[j] = x THEN fp[j]
                 ELSE FAdd(FMul(FDiv(FSub(fp[j + 1], fp[j]), FSub(xp[j + 1], xp[j])),
                                FSub(x, xp[j])),
                           fp[j])

\* np.interp raises on a missing or unpaired fp.
InterpFails(xp, fp) == fp = NoneArr \/ Len(xp) # Len(fp)

\* Line 104.
R2Of(ss_res, ss_tot) ==
    IF RLt(R(0), ss_tot) THEN FSub(R(1), FDiv(ss_res, ss_tot)) ELSE NaN

\* Lines 96-108.  RMSE is held by its square, NRMSE by the square of
\* RMSE / max|exp_u| and the factor that follows the division.
MetricsOf(sim_interp, exp_u_filt) ==
    LET errors == [i \in 1..Len(exp_u_filt) |-> FSub(sim_interp[i], exp_u_filt[i])]
        mse    == NpMean(Squares(errors))
        ss_res == NpSum(Squares(errors))
        mean   == NpMean(exp_u_filt)
        ss_tot == NpSum(Squares([i \in 1..Len(exp_u_filt) |-> FSub(exp_u_filt[i], mean)]))
        peak   == NpMax(AbsAll(exp_u_filt))
    IN  [kind   |-> "metrics",
         RMSE   |-> [sq |-> mse],
         MAE    |-> NpMean(AbsAll(errors)),
         R2     |-> R2Of(ss_res, ss_tot),
         MaxErr |-> NpMax(AbsAll(errors)),
         NRMSE  |-> IF RLt(R(0), peak)
                    THEN [sq |-> FDiv(mse, FMul(peak, peak)), times |-> R(100)]
                    ELSE NaN]

\* Lines 80-94.
CalculateErrorMetrics(er, eu, sr, su) ==
    IF sr = NoneArr \/ Len(sr) = 0 \/ er = NoneArr THEN NoneResult
    ELSE LET mask == NonZeroMask(eu)
         IN  IF \A i \in 1..Len(mask) : ~mask[i] THEN NoneResult
             ELSE IF InterpFails(sr, su) THEN NoneResult
             ELSE LET exp_r_filt == Compress(er, mask)
                      exp_u_filt == Compress(eu, mask)
                  IN  MetricsOf([i \in 1..Len(exp_r_filt) |-> Interp(exp_r_filt[i], sr, su)],
                                exp_u_filt)

\* The longest experimental curve.
MaxSamples == 3

Abscissas == 0..3
SimAbscissas == 0..2
ExpValues == {-1, 0, 1, 2, 3}
SimValues == 1..3

\* The sets of at most n abscissas, the abscissas of one in increasing order,
\* and the dependent values that can go with them.
SampleSets(abscissas, n) == {X \in SUBSET abscissas : Cardinality(X) <= n}
Increasing(X) == [i \in 1..Cardinality(X) |-> R(Ascending(X)[i])]
ValuesOn(X, values) == [1..Cardinality(X) -> {R(v) : v \in values}]

\* Simulation curves np.interp refuses.
Unpaired ==
    { [x |-> <<R(0), R(1)>>, y |-> <<R(1)>>],
      [x |-> <<R(0)>>, y |-> NoneArr] }

InitCurves ==
    /\ \/ exp_r = NoneArr /\ exp_u = NoneArr
       \/ \E X \in SampleSets(Abscissas, MaxSamples) : \E ys \in ValuesOn(X, ExpValues) :
            exp_r = Increasing(X) /\ exp_u = ys
    /\ \/ sim_r = NoneArr /\ sim_u = NoneArr
       \/ \E c \in Unpaired : sim_r = c.x /\ sim_u = c.y
       \/ \E X \in SUBSET SimAbscissas : \E ys \in ValuesOn(X, SimValues) :
            sim_r = Increasing(X) /\ sim_u = ys
    /\ metrics = Pending
    /\ ParserIdle /\ ReaderIdle /\ JetIdle /\ MainIdle

\* The arithmetic read as exact.
InitMetrics == InitCurves /\ arith = "real"

\* The arithmetic read as binary floating point.
InitMetricsFloat == InitCurves /\ arith = "float"

Compare ==
    /\ metrics = Pending
    /\ metrics' = CalculateErrorMetrics(exp_r, exp_u, sim_r, sim_u)
    /\ UNCHANGED <<exp_r, exp_u, sim_r, sim_u, arith>>
    /\ UNCHANGED <<parserVars, readerVars, jetVars, mainVars>>

NextMetrics == Compare

SpecMetrics == InitMetrics /\ [][NextMetrics]_vars

SpecMetricsFloat == InitMetricsFloat /\ [][NextMetrics]_vars

(***************************************************************************)
(* What two curves say, read off the samples without running the engine.   *)
(***************************************************************************)
Compared == metrics # Pending
Paired == sim_r # NoneArr => (sim_u # NoneArr /\ Len(sim_r) = Len(sim_u))
Scored == Compared /\ metrics # NoneResult

\* The experimental rows that count: those with a non-zero dependent value.
Kept == {i \in 1..Len(exp_u) : exp_u[i] # R(0)}

\* The simulation curve at x: flat outside its range, the chord inside.
SimAt(x) ==
    LET n == Len(sim_r)
    IN  IF RLe(x, sim_r[1]) THEN sim_u[1]
        ELSE IF RLe(sim_r[n], x) THEN sim_u[n]
        ELSE LET j == CHOOSE j \in 1..(n - 1) : RLe(sim_r[j], x) /\ RLe(x, sim_r[j + 1])
             IN  RAdd(sim_u[j],
                      RDiv(RMul(RSub(sim_u[j + 1], sim_u[j]), RSub(x, sim_r[j])),
                           RSub(sim_r[j + 1], sim_r[j])))

ErrorAt(i) == RSub(SimAt(exp_r[i]), exp_u[i])

RECURSIVE SumOver(_, _)
SumOver(f, S) ==
    IF S = {} THEN R(0)
    ELSE LET i == CHOOSE i \in S : TRUE IN RAdd(f[i], SumOver(f, S \ {i}))

AbsErrors == [i \in Kept |-> RAbs(ErrorAt(i))]
SquaredErrors == [i \in Kept |-> RMul(ErrorAt(i), ErrorAt(i))]
ExactMatch == \A i \in Kept : ErrorAt(i) = R(0)
Count == R(Cardinality(Kept))
ExpConstant == \A i, j \in Kept : exp_u[i] = exp_u[j]
IsExample(x, y) == x = <<R(0), R(1), R(2)>> /\ y = <<R(1), R(2), R(3)>>
Fields == {"kind", "RMSE", "MAE", "R2", "MaxErr", "NRMSE"}

\* C3: on paired arrays the call returns None exactly when the simulation
\* abscissa is None or empty, the experimental abscissa is None, or every
\* experimental dependent value is zero; otherwise it returns the record of
\* RMSE, MAE, R2, MaxErr and NRMSE.
C3_NoneExactlyWhenInsufficient ==
    (Compared /\ Paired) =>
        /\ metrics = NoneResult <=>
              \/ sim_r = NoneArr
              \/ Len(sim_r) = 0
              \/ exp_r = NoneArr
              \/ \A i \in 1..Len(exp_u) : exp_u[i] = R(0)
        /\ metrics # NoneResult => (metrics.kind = "metrics" /\ DOMAIN metrics = Fields)

\* C3 witness: a non-empty simulation curve compared with an experimental curve
\* of two zero values gave None.
C3_Witness ==
    /\ Compared
    /\ sim_r # NoneArr /\ Len(sim_r) >= 2 /\ Paired
    /\ exp_r # NoneArr /\ Len(exp_u) = 2 /\ Kept = {}
    /\ metrics = NoneResult

\* C4: the metrics are taken over the experimental rows with a non-zero value,
\* against the simulation curve interpolated there and held flat outside its
\* range: MAE is the mean and MaxErr the maximum of |e|, RMSE squared the mean of
\* e squared, NRMSE = 100 * RMSE / max |experimental value|; all four are 0 when
\* every e is 0, as for x = [0,1,2], y = [1,2,3] on both curves.
C4_MetricsOverNonZeroRows ==
    (Scored /\ Paired) =>
        /\ RMul(metrics.MAE, Count) = SumOver(AbsErrors, Kept)
        /\ \E i \in Kept : metrics.MaxErr = AbsErrors[i]
        /\ \A i \in Kept : RLe(AbsErrors[i], metrics.MaxErr)
        /\ RMul(metrics.RMSE.sq, Count) = SumOver(SquaredErrors, Kept)
        /\ \E i \in Kept :
              /\ \A j \in Kept : RLe(RAbs(exp_u[j]), RAbs(exp_u[i]))
              /\ RMul(metrics.NRMSE.sq, RMul(exp_u[i], exp_u[i])) = metrics.RMSE.sq
              /\ metrics.NRMSE.times = R(100)
        /\ (ExactMatch \/ (IsExample(exp_r, exp_u) /\ IsExample(sim_r, sim_u))) =>
              /\ metrics.RMSE.sq = R(0)
              /\ metrics.MAE = R(0)
              /\ metrics.MaxErr = R(0)
              /\ metrics.NRMSE.sq = R(0)

\* C4 witness: an experimental curve with a zero row and with rows on both
\* sides of the simulation's range was scored, with a non-zero error.
C4_Witness ==
    /\ Scored /\ Paired
    /\ Kept # 1..Len(exp_u)
    /\ \E i, j \in Kept : RLt(exp_r[i], sim_r[1]) /\ RLt(sim_r[Len(sim_r)], exp_r[j])
    /\ metrics.MaxErr # R(0)

\* C5: R2 is nan when the total sum of squares of the kept experimental values
\* about their mean is 0: a constant non-zero experimental curve matched
\* exactly is scored R2 = nan with RMSE = 0.
C5_ConstantCurveUndefined ==
    (Scored /\ Paired /\ ExactMatch /\ ExpConstant) =>
        (metrics.R2 = NaN /\ metrics.RMSE.sq = R(0))

(***************************************************************************)
(* calculate_jet_width                                                     *)
(***************************************************************************)
\* np.argmin(np.abs(r)): the first index of the least |r|.
ArgMinAbs(a) ==
    CHOOSE i \in 1..Len(a) :
        /\ \A j \in 1..Len(a) : RLe(RAbs(a[i]), RAbs(a[j]))
        /\ \A j \in 1..(i - 1) : RLt(RAbs(a[i]), RAbs(a[j]))

\* u_center < 0 in place of u_center <= 0.
NoJetIfNegative(u_center) == RLt(u_center, R(0))

\* Line 28: u_center <= 0.
NoJet(u_center) == RLe(u_center, R(0))

\* Line 34: r >= 0.
PositiveRMask(a) == [i \in 1..Len(a) |-> RLe(R(0), a[i])]

\* The midpoint of the two samples in place of the interpolated crossing.
MidpointRadius(r_pos, u_pos, u_half, i) ==
    FAdd(r_pos[i], FMul(Rat(1, 2), FSub(r_pos[i + 1], r_pos[i])))

\* Lines 42-43.
CrossingRadius(r_pos, u_pos, u_half, i) ==
    LET t == FDiv(FSub(u_half, u_pos[i]), FSub(u_pos[i + 1], u_pos[i]))
    IN  FAdd(r_pos[i], FMul(t, FSub(r_pos[i + 1], r_pos[i])))

\* Lines 39-46: the loop from index i on.
RECURSIVE ScanFrom(_, _, _, _)
ScanFrom(r_pos, u_pos, u_half, i) ==
    IF i > Len(u_pos) - 1 THEN NoneResult
    ELSE IF RLe(u_half, u_pos[i]) /\ RLt(u_pos[i + 1], u_half)
         THEN [kind |-> "width",
               val  |-> FMul(R(2), CrossingRadius(r_pos, u_pos, u_half, i))]
         ELSE ScanFrom(r_pos, u_pos, u_half, i + 1)

\* Lines 21-46.
CalculateJetWidth(rr, uu) ==
    IF rr = NoneArr \/ uu = NoneArr THEN NoneResult
    ELSE IF Len(rr) < 3 THEN NoneResult
    ELSE LET u_center == uu[ArgMinAbs(rr)]
         IN  IF NoJet(u_center) THEN NoneResult
             ELSE LET u_half == FDiv(u_center, R(2))
                      mask   == PositiveRMask(rr)
                  IN  ScanFrom(Compress(rr, mask), Compress(uu, mask), u_half, 1)

\* The longest profile.
MaxProfile == 5

Positions == -2..3
Velocities == {-1, 0, 1, 2, 4}

Reversed(a) == [i \in 1..Len(a) |-> a[Len(a) + 1 - i]]
Directed(dir, a) == IF dir = "inwards" THEN Reversed(a) ELSE a

\* A profile is sampled along a line, outwards or inwards.
InitJet ==
    /\ \/ r = NoneArr /\ u_axial = NoneArr
       \/ \E X \in SampleSets(Positions, MaxProfile) : \E ys \in ValuesOn(X, Velocities) :
            \E dir \in {"outwards", "inwards"} :
                r = Directed(dir, Increasing(X)) /\ u_axial = Directed(dir, ys)
    /\ width = Pending
    /\ ParserIdle /\ ReaderIdle /\ MetricsIdle /\ MainIdle

Measure ==
    /\ width = Pending
    /\ width' = CalculateJetWidth(r, u_axial)
    /\ UNCHANGED <<r, u_axial>>
    /\ UNCHANGED <<parserVars, readerVars, metricVars, mainVars>>

NextJet == Measure

SpecJet == InitJet /\ [][NextJet]_vars



(***************************************************************************)
(* What a profile says, read off its samples without running the scan.     *)
(***************************************************************************)
Measured == width # Pending
Profiled == r # NoneArr /\ Len(r) >= 3

\* The sample nearest position zero, the first of them if several are.
Centre ==
    CHOOSE c \in 1..Len(r) :
        \A j \in 1..Len(r) :
            \/ RLt(RAbs(r[c]), RAbs(r[j]))
            \/ (RAbs(r[c]) = RAbs(r[j]) /\ c <= j)

Half == RDiv(u_axial[Centre], R(2))

\* The samples at non-negative positions, as indices of the profile, in order.
NonNegative == Ascending({i \in 1..Len(r) : r[i][1] >= 0})

\* k heads a pair of consecutive non-negative-position samples that goes from
\* at least half the centreline velocity to below it.
Crosses(k) ==
    /\ k \in 1..(Len(NonNegative) - 1)
    /\ RLe(Half, u_axial[NonNegative[k]])
    /\ RLt(u_axial[NonNegative[k + 1]], Half)

FirstCrossing == CHOOSE k \in 1..Len(NonNegative) : Crosses(k) /\ \A j \in 1..(k - 1) : ~Crosses(j)

Between(x, a, b) == (RLe(a, x) /\ RLe(x, b)) \/ (RLe(b, x) /\ RLe(x, a))

C7_NoneWithoutCentrelineOrCrossing ==
    (Measured /\ Profiled) =>
        /\ RLe(u_axial[Centre], R(0)) => width = NoneResult
        /\ (\A k \in 1..Len(NonNegative) : ~Crosses(k)) => width = NoneResult
        /\ width # NoneResult =>
              \E k \in 1..Len(NonNegative) :
                  /\ Crosses(k)
                  /\ Between(RDiv(width.val, R(2)), r[NonNegative[k]], r[NonNegative[k + 1]])

\* C7 witness: positions [-2,-1,0,1,2] with velocities [1,1,2,1,1] measured None.
C7_Witness ==
    /\ r = <<R(-2), R(-1), R(0), R(1), R(2)>>
    /\ u_axial = <<R(1), R(1), R(2), R(1), R(1)>>
    /\ width = NoneResult

(***************************************************************************)
(* vv_pressure.py, main                                                    *)
(***************************************************************************)
Z_EXPANSION == Rat(122685, 1000000)
RHO == R(1056)

VVPressure == <<"vv_pressure.py">>

\* The substrings main looks for in a section label, and the labels of the
\* sections an experimental file is given here.
WallKey ==
    <<"w", "a", "l", "l", "-", "d", "i", "s", "t", "r", "i", "b", "u", "t", "i", "o", "n", "-", "p", "r", "e", "s", "s", "u", "r", "e">>
CenterlineKey ==
    <<"z", "-", "d", "i", "s", "t", "r", "i", "b", "u", "t", "i", "o", "n", "-", "p", "r", "e", "s", "s", "u", "r", "e">>
WallLabel == PlotPrefix \o WallKey
CenterlineLabel == PlotPrefix \o CenterlineKey
VelocityLabel ==
    PlotPrefix \o <<"z", "-", "d", "i", "s", "t", "r", "i", "b", "u", "t", "i", "o", "n", "-", "a", "x", "i", "a", "l", "-", "v", "e", "l", "o", "c", "i", "t", "y">>

\* sub in s
Contains(s, sub) ==
    \E k \in 0..(Len(s) - Len(sub)) : SubSeq(s, k + 1, k + Len(sub)) = sub

\* Lines 30-37: the last section whose label holds each substring.
RECURSIVE FindPressure(_, _, _)
FindPressure(d, wall_p, centerline_p) ==
    IF d = <<>> THEN [wall_p |-> wall_p, centerline_p |-> centerline_p]
    ELSE IF Contains(Head(d).key, WallKey)
         THEN FindPressure(Tail(d), Head(d).rows, centerline_p)
    ELSE IF Contains(Head(d).key, CenterlineKey)
         THEN FindPressure(Tail(d), wall_p, Head(d).rows)
    ELSE FindPressure(Tail(d), wall_p, centerline_p)

wall_p == FindPressure(exp_data, NoneArr, NoneArr).wall_p
centerline_p == FindPressure(exp_data, NoneArr, NoneArr).centerline_p

\* a[:, k], a * c, a + c and a - c on arrays.
Column(a, k) == [i \in 1..Len(a) |-> a[i][k]]
Times(a, c) == [i \in 1..Len(a) |-> FMul(a[i], c)]
Plus(a, c) == [i \in 1..Len(a) |-> FAdd(a[i], c)]
Minus(a, c) == [i \in 1..Len(a) |-> FSub(a[i], c)]

\* Lines 47-50: kinematic pressure to static pressure.
ToStatic(sim_p_kin) == Times(sim_p_kin, RHO)

\* Lines 66 and 113: simulation z to millimetres from the expansion.
FromExpansion(sim_pos) == Times(Minus(sim_pos, Z_EXPANSION), R(1000))

\* The shift taken between the first samples of the two curves.
OffsetAtStart(exp_curve, z_sim, p_sim) == FSub(exp_curve[1][2], p_sim[1])

\* Lines 70-72 and 122-124: the shift that makes the simulation curve meet the
\* experimental curve at z = 0.
OffsetAtZero(exp_curve, z_sim, p_sim) ==
    FSub(Interp(R(0), Times(Column(exp_curve, 1), R(1000)), Column(exp_curve, 2)),
         Interp(R(0), z_sim, p_sim))

\* One call of calculate_error_metrics, as made on lines 78-81 and 130-133,
\* with the series the simulation pressure came from and the shift applied.
Call(name, exp_curve, z_sim, p_shifted, p_read, shift) ==
    [name      |-> name,
     exp_x     |-> Times(Column(exp_curve, 1), R(1000)),
     exp_y     |-> Column(exp_curve, 2),
     sim_x     |-> z_sim,
     sim_y     |-> p_shifted,
     kinematic |-> p_read,
     shift     |-> shift]

MetricsOfCall(c) == CalculateErrorMetrics(c.exp_x, c.exp_y, c.sim_x, c.sim_y)

\* Lines 73-81 and 118-133: the simulation pressure is shifted and scored
\* against the experimental curve.
ShiftedCall(name, exp_curve, z_sim, p_sim, p_read, shift) ==
    Call(name, exp_curve, z_sim, Plus(p_sim, shift), p_read, shift)

\* Lines 70-81 and 122-133: the shift is the one that meets the experimental
\* curve at z = 0.
AlignedCall(name, exp_curve, z_sim, p_sim, p_read) ==
    ShiftedCall(name, exp_curve, z_sim, p_sim, p_read,
                OffsetAtZero(exp_curve, z_sim, p_sim))

\* Lines 78-82 and 130-134: the call is made and its result stored.
Score(c) ==
    /\ scored' = Append(scored, c)
    /\ all_metrics' = DictSet(all_metrics, c.name, MetricsOfCall(c))

\* Positions of the experimental curves (mm from the expansion) and their
\* pressures (Pa); positions of the simulation samples (mm from the expansion)
\* and their kinematic pressures (in units of 1/528 m2/s2).
ExpPositions == {-1, 1}
ExpPressures == {1, 3}
SimPositionSets == {{-1, 1}, {0, 2}}
SimPressures == {0, 1}
KinematicOn(X) == [1..Cardinality(X) -> {Rat(v, 528) : v \in SimPressures}]

ExpCurve(X, ys) ==
    [i \in 1..Cardinality(X) |-> <<Rat(Ascending(X)[i], 1000), ys[i]>>]

SimSample(X, ps) ==
    [kind |-> "arrays",
     pos  |-> [i \in 1..Cardinality(X) |-> RAdd(Z_EXPANSION, Rat(Ascending(X)[i], 1000))],
     p    |-> ps,
     U    |-> [i \in 1..Cardinality(X) |-> <<R(0), R(0), R(1)>>]]

\* The dataset of an experimental file: a velocity section, then the
\* centerline and the wall pressure sections it has.
Dataset(centerline, wall) ==
    <<[key |-> VelocityLabel, rows |-> <<<<R(0), R(1)>>>>]>>
    \o (IF centerline = NoneArr THEN <<>>
        ELSE <<[key |-> CenterlineLabel, rows |-> centerline]>>)
    \o (IF wall = NoneArr THEN <<>> ELSE <<[key |-> WallLabel, rows |-> wall]>>)

\* The experimental pressure curves.
ExpCurves ==
    UNION {{ExpCurve(X, ys) : ys \in ValuesOn(X, ExpPressures)} :
             X \in (SUBSET ExpPositions) \ {{}}}

\* What read_openfoam_sample can give: not found, a raise, or the triple.
DrawnSample(sim) ==
    \/ sim = NotFound
    \/ sim = Raise("IndexError")
    \/ \E X \in SimPositionSets : \E ps \in KinematicOn(X) :
         sim = SimSample(X, ps)

\* The state in which main of vv_pressure.py is entered.  Without the
\* experimental file there is no dataset, without simulation_data no sample.
InitPressure ==
    /\ script = VVPressure
    /\ postprocess_dir \in BOOLEAN
    /\ exp_file \in BOOLEAN
    /\ IF exp_file
       THEN \E centerline, wall \in {NoneArr} \cup ExpCurves :
                exp_data = Dataset(centerline, wall)
       ELSE exp_data = NoneArr
    /\ IF postprocess_dir
       THEN DrawnSample(sim_centerline) /\ DrawnSample(sim_wall)
       ELSE sim_centerline = NotFound /\ sim_wall = NotFound
    /\ p_offset = None
    /\ scored = <<>>
    /\ loc = 0
    /\ all_metrics = <<>>
    /\ plots_dir \in BOOLEAN
    /\ image = FALSE
    /\ printed = <<>>
    /\ apc = "start"
    /\ ParserIdle /\ ReaderIdle /\ MetricsIdle /\ JetIdle /\ OrchIdle

(***************************************************************************)
(* The sampling locations and the figure grids of the velocity scripts.    *)
(***************************************************************************)
VVAxial == <<"vv_axial_velocity.py">>
VVRadial == <<"vv_radial_velocity.py">>

\* The set names of z_locations: lines 115-131 of the axial script, lines
\* 84-98 of the radial script.
AxialLocations ==
    <<"radial_z_minus088", "radial_z_minus064", "radial_z_minus048",
       "radial_z_minus042", "radial_z_minus020", "radial_z_minus008",
       "radial_z_000", "radial_z_plus008", "radial_z_plus016",
       "radial_z_plus024", "radial_z_plus032", "radial_z_plus040",
       "radial_z_plus048", "radial_z_plus060", "radial_z_plus080" >>
RadialLocations ==
    <<"radial_z_minus088", "radial_z_minus064", "radial_z_minus048",
       "radial_z_minus042", "radial_z_000", "radial_z_plus008",
       "radial_z_plus016", "radial_z_plus024", "radial_z_plus032",
       "radial_z_plus040", "radial_z_plus048", "radial_z_plus060",
       "radial_z_plus080" >>
z_locations == IF script = VVAxial THEN AxialLocations ELSE RadialLocations

\* plt.subplots: 4 x 4 on line 134 of the axial script, 3 x 3 on line 101 of
\* the radial script.
Subplots(nrows, ncols) == [nrows |-> nrows, ncols |-> ncols]
axes == IF script = VVAxial THEN Subplots(4, 4) ELSE Subplots(3, 3)

\* Lines 146-147 of the axial script, whose first cell holds the centerline,
\* and lines 107-108 of the radial script.
Cell(i) ==
    IF script = VVAxial
    THEN [row |-> (i + 1) \div 4, col |-> (i + 1) % 4]
    ELSE [row |-> i \div 3, col |-> i % 3]

\* axes[row, col] raises IndexError outside the grid.
InGrid(cell) == cell.row < axes.nrows /\ cell.col < axes.ncols

\* What a plotting function returns: None, or the record of metrics.
MetricsEntries == {NoneResult, [kind |-> "metrics"]}

(***************************************************************************)
(* The steps of main.                                                      *)
(***************************************************************************)
\* print of a diagnostic.
ReportNothing(out, msg) == out

Report(out, msg) == Append(out, msg)

\* Lines 16-24: without simulation_data or the experimental file main prints
\* an error and returns.
CheckInputs ==
    /\ apc = "start"
    /\ IF ~postprocess_dir
       THEN /\ printed' = Report(printed, "Error: Run postProcess first")
            /\ apc' = "done"
       ELSE IF ~exp_file
       THEN /\ printed' = Report(printed, "Error: Experimental file not found")
            /\ apc' = "done"
       ELSE /\ apc' = "checked"
            /\ UNCHANGED printed
    /\ UNCHANGED <<script, postprocess_dir, exp_file, exp_data, sim_centerline, sim_wall,
                   p_offset, scored, loc, all_metrics, plots_dir, image>>
    /\ UNCHANGED <<parserVars, readerVars, metricVars, jetVars, orchVars>>

\* Lines 26-41: the dataset is parsed and searched for pressure sections;
\* without one main prints a message and returns.
FindPressureData ==
    /\ script = VVPressure
    /\ apc = "checked"
    /\ IF wall_p = NoneArr /\ centerline_p = NoneArr
       THEN /\ printed' = Report(printed, "No pressure data found in experimental file")
            /\ apc' = "done"
       ELSE /\ apc' = "loaded"
            /\ UNCHANGED printed
    /\ UNCHANGED <<script, postprocess_dir, exp_file, exp_data, sim_centerline, sim_wall,
                   p_offset, scored, loc, all_metrics, plots_dir, image>>
    /\ UNCHANGED <<parserVars, readerVars, metricVars, jetVars, orchVars>>

\* Lines 43-99: the centerline sample is read and converted; with an
\* experimental centerline curve it is shifted to meet that curve at z = 0 and
\* scored.  A raise of read_openfoam_sample ends main.
PlotCenterline ==
    /\ script = VVPressure
    /\ apc = "loaded"
    /\ IF sim_centerline.kind = "raise"
       THEN /\ apc' = "raised"
            /\ UNCHANGED <<p_offset, scored, all_metrics>>
       ELSE /\ apc' = "centerline"
            /\ IF centerline_p # NoneArr /\ sim_centerline.kind = "arrays"
               THEN \E c \in {AlignedCall("centerline_p", centerline_p,
                                          FromExpansion(sim_centerline.pos),
                                          ToStatic(sim_centerline.p), sim_centerline.p)} :
                        /\ p_offset' = c.shift
                        /\ Score(c)
               ELSE UNCHANGED <<p_offset, scored, all_metrics>>
    /\ UNCHANGED <<script, postprocess_dir, exp_file, exp_data, sim_centerline, sim_wall,
                   loc, plots_dir, image, printed>>
    /\ UNCHANGED <<parserVars, readerVars, metricVars, jetVars, orchVars>>

\* Lines 101-152: the wall sample is read; with an experimental wall curve it
\* is shifted by p_offset if the centerline bound it, else to meet the wall
\* curve at z = 0, and scored.
PlotWall ==
    /\ script = VVPressure
    /\ apc = "centerline"
    /\ IF sim_wall.kind = "raise"
       THEN /\ apc' = "raised"
            /\ UNCHANGED <<scored, all_metrics>>
       ELSE /\ apc' = "wall"
            /\ IF wall_p # NoneArr /\ sim_wall.kind = "arrays"
               THEN IF p_offset # None
                    THEN Score(ShiftedCall("wall_p", wall_p, FromExpansion(sim_wall.pos),
                                           sim_wall.p, sim_wall.p, p_offset))
                    ELSE Score(AlignedCall("wall_p", wall_p, FromExpansion(sim_wall.pos),
                                           sim_wall.p, sim_wall.p))
               ELSE UNCHANGED <<scored, all_metrics>>
    /\ UNCHANGED <<script, postprocess_dir, exp_file, exp_data, sim_centerline, sim_wall,
                   p_offset, loc, plots_dir, image, printed>>
    /\ UNCHANGED <<parserVars, readerVars, metricVars, jetVars, orchVars>>

\* Lines 154-167, and lines 152-170 of the axial and 113-125 of the radial
\* script: plots is made if missing and the image saved.
SaveFigure ==
    /\ \/ apc = "wall"
       \/ apc = "looping" /\ loc = Len(z_locations)
    /\ plots_dir' = TRUE
    /\ image' = TRUE
    /\ apc' = "done"
    /\ UNCHANGED <<script, postprocess_dir, exp_file, exp_data, sim_centerline, sim_wall,
                   p_offset, scored, loc, all_metrics, printed>>
    /\ UNCHANGED <<parserVars, readerVars, metricVars, jetVars, orchVars>>

NextPressure ==
    \/ CheckInputs
    \/ FindPressureData
    \/ PlotCenterline
    \/ PlotWall
    \/ SaveFigure

SpecPressure == InitPressure /\ [][NextPressure]_vars

(***************************************************************************)
(* What a run of the pressure analysis did, read off the calls it made.    *)
(***************************************************************************)
AtZero(x, y) == Interp(R(0), x, y)
MeetsAtZero(c) == AtZero(c.sim_x, c.sim_y) = AtZero(c.exp_x, c.exp_y)
CallsNamed(name) == {k \in 1..Len(scored) : scored[k].name = name}
InputsMissing == ~postprocess_dir \/ ~exp_file
SampleMissing == sim_centerline = NotFound \/ sim_wall = NotFound
PressureFound == wall_p # NoneArr \/ centerline_p # NoneArr

\* C11 as claimed: every simulation pressure series handed to
\* calculate_error_metrics, centerline and wall alike, is the kinematic series
\* read from the table multiplied by RHO, up to the shift applied to it.
C11_ScoredPressureIsStatic ==
    \A k \in 1..Len(scored) :
        \A i \in 1..Len(scored[k].sim_y) :
            RSub(scored[k].sim_y[i], scored[k].shift) = RMul(scored[k].kinematic[i], RHO)

\* C14 as claimed: when simulation_data, the experimental file or the table of
\* a sampling location is missing, main neither creates plots nor saves the
\* image, and it has printed a diagnostic when it returns.
C14_MissingInputNoArtifact ==
    /\ [][(InputsMissing \/ SampleMissing)
             => (plots_dir' = plots_dir /\ image' = image)]_vars
    /\ []((apc = "done" /\ (InputsMissing \/ SampleMissing)) => printed # <<>>)

\* C14 as amended: when simulation_data or the experimental file is missing,
\* main neither creates plots nor saves the image, and it has printed a
\* diagnostic when it returns; when both are there and the file has a pressure
\* section, main returns with plots created and the image saved and without a
\* diagnostic, also when the table of a sampling location is missing.
C14_MissingDirectoryOrFileNoArtifact ==
    /\ [][InputsMissing => (plots_dir' = plots_dir /\ image' = image)]_vars
    /\ []((apc = "done" /\ InputsMissing) => (printed # <<>> /\ ~image))
    /\ []((apc = "done" /\ ~InputsMissing) =>
             IF PressureFound
             THEN plots_dir /\ image /\ printed = <<>>
             ELSE ~image /\ printed # <<>>)

\* C14 witness: main returned after the error about the missing experimental
\* file, with plots absent as before and no image.
C14_Witness ==
    /\ script = VVPressure
    /\ apc = "done"
    /\ postprocess_dir /\ ~exp_file
    /\ Len(printed) = 1
    /\ ~plots_dir /\ ~image

\* C17 as claimed: every shifted simulation curve that was scored, centerline
\* and wall, takes at z = 0 the value its experimental curve takes at z = 0,
\* both linearly interpolated.
C17_EveryScoredCurveMeetsAtZero ==
    \A k \in 1..Len(scored) : MeetsAtZero(scored[k])

\* C17 as amended: the scored centerline curve meets its experimental curve at
\* z = 0; the scored wall curve does so when no centerline curve was scored,
\* and is otherwise shifted by the centerline's offset.
C17_CenterlineMeetsAtZeroWallFollows ==
    \A k \in 1..Len(scored) :
        /\ scored[k].name = "centerline_p" =>
              MeetsAtZero(scored[k]) /\ k = 1 /\ p_offset = scored[k].shift
        /\ scored[k].name = "wall_p" =>
              IF CallsNamed("centerline_p") = {}
              THEN MeetsAtZero(scored[k]) /\ p_offset = None
              ELSE scored[k].shift = scored[1].shift

\* C17 witness: both curves were scored, the wall curve with the centerline's
\* offset, and the wall curve does not meet its experimental curve at z = 0.
C17_Witness ==
    /\ apc = "done"
    /\ Len(scored) = 2
    /\ scored[1].name = "centerline_p"
    /\ scored[2].name = "wall_p"
    /\ MeetsAtZero(scored[1])
    /\ ~MeetsAtZero(scored[2])

(***************************************************************************)
(* run_all_vv.py                                                           *)
(***************************************************************************)
\* Lines 119-124.
scripts ==
    << [script |-> "vv_axial_velocity.py", description |-> "Axial Velocity (Uz) Profiles"],
       [script |-> "vv_radial_velocity.py", description |-> "Radial Velocity (Uy) Profiles"],
       [script |-> "vv_pressure.py", description |-> "Pressure Distribution"],
       [script |-> "vv_jet_width.py", description |-> "Jet Width Analysis"] >>

ScriptNames == {scripts[k].script : k \in 1..Len(scripts)}

\* The entries of the two directories: a name gives "dir" (a directory without
\* a table file beneath it), "dir+xy" (a directory with one) or "file".
OrchNames == {N10, NGarbage}
Directories(kinds) ==
    {Absent} \cup
    {[exists |-> TRUE, items |-> f] : f \in UNION {[D -> kinds] : D \in SUBSET OrchNames}}

\* Line 36: the items sync takes for time directories.
TimeItems(d) ==
    {n \in DOMAIN d.items : d.items[n] # "file" /\ IsDigitStr(RemoveChar(n, "."))}

\* Lines 27-54: dest after the copy; of the directories in failed the copy was
\* cut short by an error and left without its table files.
Copied(src, dst, failed) ==
    [exists |-> TRUE,
     items  |-> [n \in (DOMAIN dst.items) \cup TimeItems(src) |->
                    IF n \in failed THEN "dir"
                    ELSE IF n \in TimeItems(src) THEN src.items[n]
                    ELSE dst.items[n]]]

\* A test for the directory in place of the search for a table file.
HasDirectory(d) == d.exists

\* Lines 103-108: a *.xy file somewhere under simulation_data.
HasData(d) == d.exists /\ \E n \in DOMAIN d.items : d.items[n] = "dir+xy"

\* The outcomes of subprocess.run: a raise, or the exit code of the script.
Outcomes == {"raise", "0", "1"}

\* The script's presence taken for success.
SuccessIfFound(found, outcome) == found

\* Lines 70-89: what run_script returns.
Success(found, outcome) == found /\ outcome = "0"

InitOrch ==
    /\ source_dir \in Directories({"dir", "dir+xy", "file"})
    /\ dest_dir \in Directories({"dir", "dir+xy"})
    /\ scripts_dir \in SUBSET ScriptNames
    /\ synced = "pending"
    /\ attempted = <<>>
    /\ launched = <<>>
    /\ results = <<>>
    /\ exit_status = "none"
    /\ opc = "start"
    /\ ParserIdle /\ ReaderIdle /\ MetricsIdle /\ JetIdle /\ AnalysisIdle

\* Lines 13-61 (called on line 100): sync_simulation_data.
Sync ==
    /\ opc = "start"
    /\ IF ~source_dir.exists
       THEN /\ synced' = "False"
            /\ UNCHANGED dest_dir
       ELSE \E failed \in SUBSET TimeItems(source_dir) :
                /\ dest_dir' = Copied(source_dir, dest_dir, failed)
                /\ synced' = IF TimeItems(source_dir) = {} THEN "False" ELSE "True"
    /\ opc' = "synced"
    /\ UNCHANGED <<source_dir, scripts_dir, attempted, launched, results, exit_status>>
    /\ UNCHANGED <<parserVars, readerVars, metricVars, jetVars, analysisVars>>

\* Lines 102-117: without a table file the process exits with status 1.
CheckData ==
    /\ opc = "synced"
    /\ IF HasData(dest_dir)
       THEN /\ opc' = "running"
            /\ UNCHANGED exit_status
       ELSE /\ opc' = "exited"
            /\ exit_status' = "1"
    /\ UNCHANGED <<source_dir, dest_dir, scripts_dir, synced, attempted, launched, results>>
    /\ UNCHANGED <<parserVars, readerVars, metricVars, jetVars, analysisVars>>

\* Lines 127-130 with run_script, lines 64-89: one turn of the loop.
RunScript ==
    /\ opc = "running"
    /\ Len(attempted) < Len(scripts)
    /\ LET next  == scripts[Len(attempted) + 1]
           found == next.script \in scripts_dir
       IN  \E outcome \in IF found THEN Outcomes ELSE {"none"} :
               /\ attempted' = Append(attempted, [script  |-> next.script,
                                                  found   |-> found,
                                                  outcome |-> outcome])
               /\ launched' = IF found /\ outcome # "raise"
                              THEN Append(launched, next.script) ELSE launched
               /\ results' = DictSet(results, next.description,
                                     IF Success(found, outcome) THEN "PASS" ELSE "FAIL")
    /\ UNCHANGED <<source_dir, dest_dir, scripts_dir, synced, exit_status, opc>>
    /\ UNCHANGED <<parserVars, readerVars, metricVars, jetVars, analysisVars>>

\* Lines 132-157: the summary is printed and main returns.
Summary ==
    /\ opc = "running"
    /\ Len(attempted) = Len(scripts)
    /\ opc' = "exited"
    /\ exit_status' = "0"
    /\ UNCHANGED <<source_dir, dest_dir, scripts_dir, synced, attempted, launched, results>>
    /\ UNCHANGED <<parserVars, readerVars, metricVars, jetVars, analysisVars>>

NextOrch ==
    \/ Sync
    \/ CheckData
    \/ RunScript
    \/ Summary

SpecOrch == InitOrch /\ [][NextOrch]_vars

\* main runs on: a step that can be taken is taken.
SpecOrchFair == SpecOrch /\ WF_vars(NextOrch)

(***************************************************************************)
(* What a run of the orchestrator did.                                     *)
(***************************************************************************)
TableFileUnder(d) == d.exists /\ \E n \in DOMAIN d.items : d.items[n] = "dir+xy"
Synchronised == opc \in {"synced", "running", "exited"}
StatusOf(description) == DictGet(results, description)

\* C12: when no table file is under simulation_data after the
\* synchronisation, whatever sync_simulation_data returned, the process ends
\* with exit status 1 and run_script was never called: no analysis was started
\* and no status recorded.
C12_NoDataExitsBeforeAnalyses ==
    (Synchronised /\ ~TableFileUnder(dest_dir)) =>
        /\ attempted = <<>>
        /\ launched = <<>>
        /\ results = <<>>
        /\ opc # "running"
        /\ opc = "exited" => exit_status = "1"

\* C12 witness: the synchronisation copied a time directory and returned
\* True, no table file is under simulation_data, and the process has exited.
C12_Witness ==
    /\ opc = "exited"
    /\ exit_status = "1"
    /\ synced = "True"
    /\ dest_dir.exists
    /\ DOMAIN dest_dir.items # {}
    /\ ~TableFileUnder(dest_dir)

\* C13: when a table file is under simulation_data, run_script is called for
\* the four analyses in the order axial velocity, radial velocity, pressure,
\* jet width, once each, whatever the earlier calls gave; each analysis has one
\* status, PASS exactly when its script is there and exited with code 0; and
\* the process then ends with exit status 0.
C13_FourAnalysesInOrderOneStatusEach ==
    /\ [](/\ Len(attempted) <= Len(scripts)
          /\ Len(results) = Len(attempted)
          /\ \A k \in 1..Len(attempted) :
                /\ attempted[k].script = scripts[k].script
                /\ attempted[k].found = (scripts[k].script \in scripts_dir)
                /\ results[k].key = scripts[k].description
                /\ (StatusOf(scripts[k].description) = "PASS")
                      = (attempted[k].found /\ attempted[k].outcome = "0")
                /\ StatusOf(scripts[k].description) \in {"PASS", "FAIL"}
          /\ (opc = "exited" /\ TableFileUnder(dest_dir)) =>
                (Len(attempted) = Len(scripts) /\ exit_status = "0"))
    /\ (opc = "running") ~> (opc = "exited" /\ exit_status = "0")

\* C13 witness: the process has ended after the four analyses, of which one
\* script was missing, one raised at launch, one exited with code 1 and the
\* last passed.
C13_Witness ==
    /\ opc = "exited"
    /\ Len(attempted) = 4
    /\ ~attempted[1].found
    /\ attempted[2].outcome = "raise"
    /\ attempted[3].outcome = "1"
    /\ attempted[4].outcome = "0"
    /\ StatusOf(scripts[4].description) = "PASS"
    /\ launched = <<scripts[3].script, scripts[4].script>>

(***************************************************************************)
(* vv_axial_velocity.py and vv_radial_velocity.py, main                    *)
(***************************************************************************)
InitGrid ==
    /\ script \in {VVAxial, VVRadial}
    /\ postprocess_dir \in BOOLEAN
    /\ exp_file \in BOOLEAN
    /\ exp_data = NoneArr
    /\ sim_centerline = Pending
    /\ sim_wall = Pending
    /\ p_offset = None
    /\ scored = <<>>
    /\ loc = 0
    /\ all_metrics = <<>>
    /\ plots_dir \in BOOLEAN
    /\ image = FALSE
    /\ printed = <<>>
    /\ apc = "start"
    /\ ParserIdle /\ ReaderIdle /\ MetricsIdle /\ JetIdle /\ OrchIdle

\* Lines 110-142 of the axial script: the figure is made and the centerline
\* plotted in its first cell; lines 76-104 of the radial script: the figure is
\* made.
OpenFigure ==
    /\ script \in {VVAxial, VVRadial}
    /\ apc = "checked"
    /\ IF script = VVAxial
       THEN \E entry \in MetricsEntries :
                all_metrics' = DictSet(all_metrics, "centerline", entry)
       ELSE UNCHANGED all_metrics
    /\ apc' = "looping"
    /\ UNCHANGED <<script, postprocess_dir, exp_file, exp_data, sim_centerline, sim_wall,
                   p_offset, scored, loc, plots_dir, image, printed>>
    /\ UNCHANGED <<parserVars, readerVars, metricVars, jetVars, orchVars>>

\* Lines 145-150 of the axial script, lines 106-111 of the radial script: one
\* turn of the loop over z_locations.
PlotLocation ==
    /\ apc = "looping"
    /\ loc < Len(z_locations)
    /\ IF InGrid(Cell(loc))
       THEN /\ \E entry \in MetricsEntries :
                   all_metrics' = DictSet(all_metrics, z_locations[loc + 1], entry)
            /\ loc' = loc + 1
            /\ UNCHANGED apc
       ELSE /\ apc' = "raised"
            /\ UNCHANGED <<loc, all_metrics>>
    /\ UNCHANGED <<script, postprocess_dir, exp_file, exp_data, sim_centerline, sim_wall,
                   p_offset, scored, plots_dir, image, printed>>
    /\ UNCHANGED <<parserVars, readerVars, metricVars, jetVars, orchVars>>

NextGrid ==
    \/ CheckInputs
    \/ OpenFigure
    \/ PlotLocation
    \/ SaveFigure

SpecGrid == InitGrid /\ [][NextGrid]_vars

\* C18 as claimed: in the axial and the radial analysis with the inputs
\* present, every location index has its cell inside the figure grid, so no
\* turn of the loop raises, and main returns with one metrics entry for every
\* location and the image saved.
C18_EveryLocationInsideGrid ==
    (script \in {VVAxial, VVRadial} /\ postprocess_dir /\ exp_file) =>
        /\ \A i \in 0..(loc - 1) : InGrid(Cell(i))
        /\ apc # "raised"
        /\ apc = "done" =>
              /\ image
              /\ \A i \in 1..Len(z_locations) : z_locations[i] \in Keys(all_metrics)

(***************************************************************************)
(* The functions and the scripts together: one of them is run.             *)
(***************************************************************************)
Init ==
    \/ InitParser
    \/ InitReader
    \/ InitMetrics
    \/ InitMetricsFloat
    \/ InitJet
    \/ InitPressure
    \/ InitGrid
    \/ InitOrch

Next ==
    \/ NextParser
    \/ NextReader
    \/ NextMetrics
    \/ NextJet
    \/ NextPressure
    \/ NextGrid
    \/ NextOrch

Spec == Init /\ [][Next]_vars

====
